---- MODULE Spec2Model ----
(***************************************************************************)
(* Model of src/pipeline.py: the Pipeline orchestrator (generate_data,     *)
(* run_cross_validation, train, test) and the __main__ mode dispatch.      *)
(*                                                                         *)
(* One behaviour is one process invocation.  Rows are numbered from 1      *)
(* (Python row r is row r+1 here); fold numbers keep Python's 0-based      *)
(* numbering because they appear in the persisted file names.              *)
(***************************************************************************)
EXTENDS Integers, Sequences, FiniteSets, TLC

\* ------------------------------------------------------------------ bounds
MaxPatients == 6      \* rows of the clinical table are 0..MaxPatients
MaxImages == 3        \* patient ids of the image dataset are drawn from 1..MaxImages
MaxK == 3             \* run_cross_validation is invoked with k in 0..MaxK

\* ------------------------------------------------------- program constants
TestSizeNum == 2                 \* test_size=0.2 as the fraction 2/10
TestSizeDen == 10

Labels == {0, 1}                 \* Censored_0_progressed_1
Modes == {"data", "train", "test"}
DataTypes == {"clinical", "image", "both"}

\* ----------------------------------------------------------- sequences
Range(s) == {s[i] : i \in 1..Len(s)}

Reverse(s) == [i \in 1..Len(s) |-> s[Len(s) + 1 - i]]

IsPrefix(s, t) == Len(s) <= Len(t) /\ \A i \in 1..Len(s) : s[i] = t[i]

Min(S) == CHOOSE x \in S : \A y \in S : x <= y

RECURSIVE Ascending(_)
\* The elements of a finite set of integers in ascending order.
Ascending(S) == IF S = {} THEN << >> ELSE <<Min(S)>> \o Ascending(S \ {Min(S)})

RECURSIVE Sum(_, _)
Sum(f, S) == IF S = {} THEN 0
             ELSE LET c == CHOOSE x \in S : TRUE IN f[c] + Sum(f, S \ {c})

\* arr[idx] for an index sequence idx (numpy / torch fancy indexing, list
\* comprehension for a Python list).
Take(arr, idx) == [i \in 1..Len(idx) |-> arr[idx[i]]]

\* The outcomes of rng.permutation / rng.shuffle: the generator is seeded, so
\* the program sees one of them; the model draws it from this family.
Shuffles == {"identity", "reverse"}

Permute(s, kind) == IF kind = "identity" THEN s ELSE Reverse(s)

\* ------------------------------------------- sklearn: train_test_split
\* _validate_shuffle_split with test_size=0.2, train_size=None:
\* n_test = ceil(0.2 * n), n_train = n - n_test.  (Within the bounds used here
\* 0.2 * n is computed exactly enough in floating point for ceil to agree with
\* the rational value.)
NTest(n) == (TestSizeNum * n + TestSizeDen - 1) \div TestSizeDen

NTrain(n) == n - NTest(n)

\* np.unique(y) and np.bincount(y_indices)
ClassesOf(labels) == Range(labels)

ClassCount(labels, c) == Cardinality({i \in 1..Len(labels) : labels[i] = c})

\* np.argsort(y_indices, kind="mergesort") split per class: the rows of class
\* c in ascending row order.
ClassIndices(labels, c) == Ascending({i \in 1..Len(labels) : labels[i] = c})

\* The ValueError train_test_split raises for this label vector, or "none".
SplitError(labels) ==
    LET n == Len(labels)
        classes == ClassesOf(labels)
    IN  IF n = 0 \/ NTrain(n) = 0 THEN "ValueError"
        ELSE IF \E c \in classes : ClassCount(labels, c) < 2 THEN "ValueError"
        ELSE IF NTrain(n) < Cardinality(classes) THEN "ValueError"
        ELSE IF NTest(n) < Cardinality(classes) THEN "ValueError"
        ELSE "none"

\* _approximate_mode(class_counts, n_draws, rng): floor of the proportional
\* share per class, the missing draws given to the classes with the largest
\* remainders, ties broken by the generator.  Shares are compared as the
\* integers counts[c] * n_draws (quotient and remainder by the total).
ApproximateMode(counts, n_draws) ==
    LET classes == DOMAIN counts
        total == Sum(counts, classes)
        floored == [c \in classes |-> (counts[c] * n_draws) \div total]
        remainder == [c \in classes |-> (counts[c] * n_draws) % total]
        need_to_add == n_draws - Sum(floored, classes)
    IN  {[c \in classes |-> floored[c] + (IF c \in S THEN 1 ELSE 0)] :
            S \in {T \in SUBSET classes :
                     /\ Cardinality(T) = need_to_add
                     /\ \A c \in T : \A d \in classes \ T :
                            remainder[c] >= remainder[d]}}

RECURSIVE ExtendClasses_Overlap(_, _, _, _, _)
\* Mutant of ExtendClasses: the test slice starts one row early, on the last
\* train row of the class.
ExtendClasses_Overlap(todo, labels, n_i, t_i, kind) ==
    IF todo = {} THEN [train |-> << >>, test |-> << >>]
    ELSE LET c == Min(todo)
             perm == Permute(ClassIndices(labels, c), kind)
             rest == ExtendClasses_Overlap(todo \ {c}, labels, n_i, t_i, kind)
         IN  [train |-> SubSeq(perm, 1, n_i[c]) \o rest.train,
              test |-> SubSeq(perm, n_i[c], n_i[c] + t_i[c] - 1) \o rest.test]

RECURSIVE ExtendClasses(_, _, _, _, _)
\* The loop "for i in range(n_classes)" of StratifiedShuffleSplit._iter_indices:
\* per class, permute its rows, the first n_i go to train, the next t_i to test.
ExtendClasses(todo, labels, n_i, t_i, kind) ==
    IF todo = {} THEN [train |-> << >>, test |-> << >>]
    ELSE LET c == Min(todo)
             perm == Permute(ClassIndices(labels, c), kind)
             rest == ExtendClasses(todo \ {c}, labels, n_i, t_i, kind)
         IN  [train |-> SubSeq(perm, 1, n_i[c]) \o rest.train,
              test |-> SubSeq(perm, n_i[c] + 1, n_i[c] + t_i[c]) \o rest.test]

\* StratifiedShuffleSplit(test_size=0.2, random_state=42).split(X, y): the
\* (train, test) row-index sequences it can yield for this label vector.
StratifiedShuffleSplit(labels) ==
    LET n == Len(labels)
        classes == ClassesOf(labels)
        class_counts == [c \in classes |-> ClassCount(labels, c)]
    IN  UNION {
          UNION {
            {[train |-> Permute(ExtendClasses(classes, labels, n_i, t_i, cp).train, fp),
              test |-> Permute(ExtendClasses(classes, labels, n_i, t_i, cp).test, fp)] :
                cp \in Shuffles, fp \in Shuffles} :
            t_i \in ApproximateMode([c \in classes |-> class_counts[c] - n_i[c]],
                                    NTest(n))} :
          n_i \in ApproximateMode(class_counts, NTrain(n))}

\* train_test_split(patient_data, patient_labels, patient_ids, ...): every
\* array is indexed by the same train rows and the same test rows.
TrainTestSplit(data, labels, ids, sp) ==
    [train_data |-> Take(data, sp.train), test_data |-> Take(data, sp.test),
     train_labels |-> Take(labels, sp.train), test_labels |-> Take(labels, sp.test),
     train_ids |-> Take(ids, sp.train), test_ids |-> Take(ids, sp.test)]

\* ------------------------------------------------- sklearn: KFold
\* fold_sizes of KFold._iter_test_indices: n // k each, the first n % k folds
\* one more.  Folds are numbered from 0.
FoldSize(n, k, f) == n \div k + (IF f < n % k THEN 1 ELSE 0)

RECURSIVE FoldStart(_, _, _)
FoldStart(n, k, f) == IF f = 0 THEN 0 ELSE FoldStart(n, k, f - 1) + FoldSize(n, k, f - 1)

\* KFold(n_splits=k, shuffle=True, random_state=42).split(X): the shuffled row
\* indices are cut into k consecutive runs; fold f validates on run f and
\* trains on the other rows, both returned in ascending row order
\* (indices[test_mask], indices[~test_mask]).
KFoldSplit(n, k, kind) ==
    LET indices == Permute([i \in 1..n |-> i], kind)
        test(f) == {indices[j] : j \in (FoldStart(n, k, f) + 1)..(FoldStart(n, k, f) + FoldSize(n, k, f))}
    IN  [i \in 1..k |-> [fold |-> i - 1,
                         train_idx |-> Ascending((1..n) \ test(i - 1)),
                         val_idx |-> Ascending(test(i - 1))]]

\* The ValueError KFold raises when constructed with n_splits <= 1.
KFoldInitError(k) == IF k <= 1 THEN "ValueError" ELSE "none"

\* The ValueError KFold.split raises when n_splits > n_samples.
KFoldSplitError(n, k) == IF k > n THEN "ValueError" ELSE "none"

\* ------------------------------------------- collaborators of the pipeline
\* DataPreprocessing(...).preprocesses_data(): aligned (features, label, id)
\* rows, ids unique.  Row i carries the feature value 100 + i and the id 10 * i.
ClinicalTables ==
    UNION {{[data |-> [i \in 1..n |-> 100 + i],
             labels |-> l,
             ids |-> [i \in 1..n |-> 10 * i]] : l \in [1..n -> Labels]} :
           n \in 0..MaxPatients}

\* PNGDataset(...).data.keys(): the patient ids of the image directory in the
\* order the directory listing inserted them.
ImageKeyOrders ==
    UNION {{Ascending(S), Reverse(Ascending(S))} : S \in SUBSET (1..MaxImages)}

NoModel == [fitted |-> FALSE, data |-> << >>, labels |-> << >>]

\* ClinicalDataEmbeddings.train_model(data, labels): the fit state is a
\* function of the rows and labels it was given.
FitModel(data, labels) == [fitted |-> TRUE, data |-> data, labels |-> labels]

\* The embedding array of ClinicalDataEmbeddings for the rows of data, in row
\* order: row i is a function of the fit state and of data[i].
ClinicalEmbeddings(model, data) == [i \in 1..Len(data) |-> [model |-> model, x |-> data[i]]]

\* The embedding array QCNN.process_and_save_embeddings writes for ids, one
\* tensor per id in list order.
ImageEmbeddings(ids) == [i \in 1..Len(ids) |-> [patient |-> ids[i]]]

\* pd.DataFrame(data.numpy()): one row per feature row.
DataFrameOfData(data) == data

\* pd.DataFrame({id_column: ids, target_column: labels.numpy()})
DataFrameOfLabels(ids, labels) ==
    [i \in 1..Len(ids) |-> [TCIA_ID |-> ids[i], Censored_0_progressed_1 |-> labels[i]]]

\* ------------------------------------------------------------- file names
TrainDataCsv == "data/train_data.csv"
TrainLabelsCsv == "data/labels/train_labels.csv"
TestDataCsv == "data/test_data.csv"
TestLabelsCsv == "data/labels/test_labels.csv"
ClinicalTrainEmb == "clinical/train_embeddings"
ClinicalTestEmb == "clinical/test_embeddings"
ImageTrainEmb == "image/train_embeddings.npy"
ImageTestEmb == "image/test_embeddings.npy"

CsvFiles == <<TrainDataCsv, TrainLabelsCsv, TestDataCsv, TestLabelsCsv>>
ClinicalFiles == {ClinicalTrainEmb, ClinicalTestEmb}
ImageFiles == {ImageTrainEmb, ImageTestEmb}
FileNames == Range(CsvFiles) \cup ClinicalFiles \cup ImageFiles

\* ------------------------------------------------------------------ state
VARIABLES
    invocation,       \* "main": python pipeline.py ...; "direct": a caller runs Pipeline(args).run_cross_validation(k)
    args,             \* the parsed arguments: mode, data_type, use_pregen
    k,                \* the k of run_cross_validation
    state,            \* idle, generating_data, cross_validating, training, testing, done, failed
    pc,               \* the statement about to run (where the exception was raised, once failed)
    error,            \* the exception that ended the run, or "none"
    patient_data, patient_labels, patient_ids,
    train_data, test_data, train_labels, test_labels, train_ids, test_ids,
    embedding_model,  \* the fit state of embedding_generator
    png_keys,         \* png_dataset.data.keys()
    all_patient_ids, train_image_ids, test_image_ids,
    fs,               \* the persisted artifacts of generate_data
    trace,            \* the calls made so far, in order
    folds,            \* what kfold.split yields
    fold,             \* the loop variable of run_cross_validation
    val_data, val_labels,
    fold_metrics,
    fold_fs,          \* the per-fold files np.save has written
    folds_done        \* the (train_idx, val_idx) pairs the loop has taken

population == <<patient_data, patient_labels, patient_ids>>
splitVars == <<train_data, test_data, train_labels, test_labels, train_ids, test_ids>>
imageVars == <<png_keys, all_patient_ids, train_image_ids, test_image_ids>>
cvVars == <<folds, fold, val_data, val_labels, fold_metrics, fold_fs, folds_done>>
inputs == <<invocation, args, k>>
vars == <<inputs, state, pc, error, population, splitVars, embedding_model,
          imageVars, fs, trace, cvVars>>

Args == [mode : Modes, data_type : DataTypes, use_pregen : BOOLEAN]

\* The args of a Pipeline whose caller invokes run_cross_validation itself;
\* run_cross_validation never reads self.args.
DefaultArgs == [mode |-> "data", data_type |-> "both", use_pregen |-> FALSE]

Absent == [status |-> "absent", rows |-> << >>]
Stale == [status |-> "stale", rows |-> << >>]
Written(rows) == [status |-> "written", rows |-> rows]

Event(op, x, y) == [op |-> op, x |-> x, y |-> y]

Init ==
    /\ invocation \in {"main", "direct"}
    /\ args \in IF invocation = "main" THEN Args ELSE {DefaultArgs}
    /\ k \in IF invocation = "main" THEN {0} ELSE 0..MaxK
    /\ state = "idle"
    /\ pc = "start"
    /\ error = "none"
    /\ patient_data = << >> /\ patient_labels = << >> /\ patient_ids = << >>
    /\ train_data = << >> /\ test_data = << >>
    /\ train_labels = << >> /\ test_labels = << >>
    /\ train_ids = << >> /\ test_ids = << >>
    /\ embedding_model = NoModel
    /\ png_keys = << >>
    /\ all_patient_ids = << >> /\ train_image_ids = << >> /\ test_image_ids = << >>
    /\ fs \in {[f \in FileNames |-> Absent], [f \in FileNames |-> Stale]}
    /\ trace = << >>
    /\ folds = << >> /\ fold = 0
    /\ val_data = << >> /\ val_labels = << >>
    /\ fold_metrics = << >>
    /\ fold_fs = << >>
    /\ folds_done = << >>

Running == state \notin {"idle", "done", "failed"}

\* An uncaught exception: it propagates out of the method and ends the run.
Raise(e) == /\ state' = "failed"
            /\ error' = e
            /\ pc' = pc

Goto(label) == /\ pc' = label
               /\ UNCHANGED <<state, error>>

Return == /\ pc' = "exit"
          /\ state' = "done"
          /\ UNCHANGED error

Call(op, x, y) == trace' = Append(trace, Event(op, x, y))

\* --------------------------------------------------------------- __main__
\* Mutant of Dispatch: mode test runs the trainer.
Dispatch_TestTrains(mode) == CASE mode = "data" -> "generate_data"
                               [] mode = "train" -> "train"
                               [] mode = "test" -> "train"

\* The method the mode selector dispatches to.
Dispatch(mode) == CASE mode = "data" -> "generate_data"
                    [] mode = "train" -> "train"
                    [] mode = "test" -> "test"

StateOf(method) == CASE method = "generate_data" -> "generating_data"
                     [] method = "run_cross_validation" -> "cross_validating"
                     [] method = "train" -> "training"
                     [] method = "test" -> "testing"

Main ==
    /\ invocation = "main"
    /\ pc = "start"
    /\ pc' = Dispatch(args.mode)
    /\ state' = StateOf(Dispatch(args.mode))
    /\ Call(Dispatch(args.mode), "-", "-")
    /\ UNCHANGED <<inputs, error, population, splitVars, embedding_model,
                   imageVars, fs, cvVars>>

\* A caller invokes run_cross_validation directly; no mode of the entry point
\* leads there.
DirectCrossValidation ==
    /\ invocation = "direct"
    /\ pc = "start"
    /\ pc' = "run_cross_validation"
    /\ state' = StateOf("run_cross_validation")
    /\ Call("run_cross_validation", "-", "-")
    /\ UNCHANGED <<inputs, error, population, splitVars, embedding_model,
                   imageVars, fs, cvVars>>

\* Pipeline.train: Trainer(self.args).train(), which returns or raises.
Train ==
    /\ Running /\ pc = "train"
    /\ Call("Trainer.train", "-", "-")
    /\ \E ok \in BOOLEAN : IF ok THEN Return ELSE Raise("Exception")
    /\ UNCHANGED <<inputs, population, splitVars, embedding_model, imageVars, fs, cvVars>>

\* Pipeline.test: Evaluator(self.args).test(), which returns or raises.
Test ==
    /\ Running /\ pc = "test"
    /\ Call("Evaluator.test", "-", "-")
    /\ \E ok \in BOOLEAN : IF ok THEN Return ELSE Raise("Exception")
    /\ UNCHANGED <<inputs, population, splitVars, embedding_model, imageVars, fs, cvVars>>

\* ---------------------------------------------------------- generate_data
\* Mutant of SkipGeneration: the flag is ignored.
SkipGeneration_Never(a) == FALSE

\* if self.args.use_pregen: return
SkipGeneration(a) == a.use_pregen

\* if self.args.data_type == 'both' or self.args.data_type == 'clinical'
RunsClinical(a) == a.data_type = "both" \/ a.data_type = "clinical"

\* if self.args.data_type == 'both' or self.args.data_type == 'image'
RunsImage(a) == a.data_type = "both" \/ a.data_type = "image"

\* Mutant of AfterCsv: the image block is tested for first.
AfterCsv_ImageFirst(a) == IF RunsImage(a) THEN "PNGDataset" ELSE "train_model"

\* The statement that follows the CSV block, and the one that follows the
\* clinical block.
AfterCsv(a) == IF RunsClinical(a) THEN "train_model"
               ELSE IF RunsImage(a) THEN "PNGDataset" ELSE "return"

AfterClinical(a) == IF RunsImage(a) THEN "PNGDataset" ELSE "return"

\* The value of a local variable of generate_data, by name.
Local(name) == CASE name = "train_data" -> train_data
                 [] name = "test_data" -> test_data
                 [] name = "train_labels" -> train_labels
                 [] name = "test_labels" -> test_labels
                 [] name = "train_ids" -> train_ids
                 [] name = "test_ids" -> test_ids
                 [] name = "train_image_ids" -> train_image_ids
                 [] name = "test_image_ids" -> test_image_ids

\* Mutant of CsvWrites: the train label table takes the first ids of the
\* unsplit id list instead of train_ids.
CsvWrites_UnsplitIds ==
    <<[file |-> TrainDataCsv, rows |-> DataFrameOfData(train_data)],
      [file |-> TrainLabelsCsv,
       rows |-> DataFrameOfLabels(SubSeq(patient_ids, 1, Len(train_labels)), train_labels)],
      [file |-> TestDataCsv, rows |-> DataFrameOfData(test_data)],
      [file |-> TestLabelsCsv, rows |-> DataFrameOfLabels(test_ids, test_labels)]>>

\* The to_csv calls of the save_csv block, in program order.
CsvWrites ==
    <<[file |-> TrainDataCsv, rows |-> DataFrameOfData(train_data)],
      [file |-> TrainLabelsCsv, rows |-> DataFrameOfLabels(train_ids, train_labels)],
      [file |-> TestDataCsv, rows |-> DataFrameOfData(test_data)],
      [file |-> TestLabelsCsv, rows |-> DataFrameOfLabels(test_ids, test_labels)]>>

\* Mutant of FitArguments: the model is fitted on the test subset.
FitArguments_Test == [X |-> "test_data", y |-> "test_labels"]

\* embedding_generator.train_model(train_data, train_labels)
FitArguments == [X |-> "train_data", y |-> "train_labels"]

\* embedding_generator.generate_and_save_embeddings(train_data, isTrain=True)
\* embedding_generator.generate_and_save_embeddings(test_data, isTrain=False)
TrainEmbeddingCall == [X |-> "train_data", isTrain |-> "isTrain=True", file |-> ClinicalTrainEmb]
TestEmbeddingCall == [X |-> "test_data", isTrain |-> "isTrain=False", file |-> ClinicalTestEmb]

\* all_patient_ids = sorted(list(png_dataset.data.keys()))
Sorted(keys) == Ascending(Range(keys))

\* Mutant of ImageSplit: the middle id of an odd-sized list goes to train.
ImageSplit_RoundUp(all) == [train |-> SubSeq(all, 1, (Len(all) + 1) \div 2),
                            test |-> SubSeq(all, (Len(all) + 1) \div 2 + 1, Len(all))]

\* train_image_ids = all_patient_ids[:len(all_patient_ids)//2]
\* test_image_ids = all_patient_ids[len(all_patient_ids)//2:]
ImageSplit(all) == [train |-> SubSeq(all, 1, Len(all) \div 2),
                    test |-> SubSeq(all, Len(all) \div 2 + 1, Len(all))]

\* qcnn.process_and_save_embeddings(..., train_image_ids, ..., filename="train_embeddings.npy")
\* qcnn.process_and_save_embeddings(..., test_image_ids, ..., filename="test_embeddings.npy")
TrainImageCall == [ids |-> "train_image_ids", filename |-> "train_embeddings.npy", file |-> ImageTrainEmb]
TestImageCall == [ids |-> "test_image_ids", filename |-> "test_embeddings.npy", file |-> ImageTestEmb]

\* Entry of generate_data: the use_pregen early return.
GenerateData ==
    /\ Running /\ pc = "generate_data"
    /\ IF SkipGeneration(args) THEN Return ELSE Goto("preprocesses_data")
    /\ UNCHANGED <<inputs, population, splitVars, embedding_model, imageVars,
                   fs, trace, cvVars>>

\* data_preprocessing = DataPreprocessing(...); ....preprocesses_data()
LoadClinical ==
    /\ Running /\ pc = "preprocesses_data"
    /\ Call("preprocesses_data", "-", "-")
    /\ \/ /\ Raise("Exception")
          /\ UNCHANGED population
       \/ \E t \in ClinicalTables :
             /\ patient_data' = t.data
             /\ patient_labels' = t.labels
             /\ patient_ids' = t.ids
             /\ Goto("train_test_split")
    /\ UNCHANGED <<inputs, splitVars, embedding_model, imageVars, fs, cvVars>>

\* train_test_split(..., test_size=0.2, random_state=42, stratify=patient_labels)
Split ==
    /\ Running /\ pc = "train_test_split"
    /\ Call("train_test_split", "-", "-")
    /\ IF SplitError(patient_labels) # "none"
          THEN /\ Raise(SplitError(patient_labels))
               /\ UNCHANGED splitVars
          ELSE \E sp \in StratifiedShuffleSplit(patient_labels) :
                 LET r == TrainTestSplit(patient_data, patient_labels, patient_ids, sp)
                 IN  /\ train_data' = r.train_data
                     /\ test_data' = r.test_data
                     /\ train_labels' = r.train_labels
                     /\ test_labels' = r.test_labels
                     /\ train_ids' = r.train_ids
                     /\ test_ids' = r.test_ids
                     /\ Goto("to_csv")
    /\ UNCHANGED <<inputs, population, embedding_model, imageVars, fs, cvVars>>

RECURSIVE WriteAll(_, _, _)
\* The file system after the first n writes of ws.
WriteAll(files, ws, n) ==
    IF n = 0 THEN files
    ELSE [WriteAll(files, ws, n - 1) EXCEPT ![ws[n].file] = Written(ws[n].rows)]

\* The save_csv block: four to_csv calls in order; the first n succeed, and
\* with n < 4 the next one raises.
SaveCsv ==
    /\ Running /\ pc = "to_csv"
    /\ \E n \in 0..Len(CsvWrites) :
          /\ fs' = WriteAll(fs, CsvWrites, n)
          /\ IF n = Len(CsvWrites)
                THEN /\ trace' = trace \o [i \in 1..n |-> Event("to_csv", CsvWrites[i].file, "-")]
                     /\ Goto(AfterCsv(args))
                ELSE /\ trace' = trace \o [i \in 1..(n + 1) |-> Event("to_csv", CsvWrites[i].file, "-")]
                     /\ Raise("Exception")
    /\ UNCHANGED <<inputs, population, splitVars, embedding_model, imageVars, cvVars>>

\* embedding_generator = ClinicalDataEmbeddings(...);
\* embedding_generator.train_model(train_data, train_labels)
FitClinical ==
    /\ Running /\ pc = "train_model"
    /\ Call("train_model", FitArguments.X, FitArguments.y)
    /\ \/ /\ Raise("Exception")
          /\ UNCHANGED embedding_model
       \/ /\ embedding_model' = FitModel(Local(FitArguments.X), Local(FitArguments.y))
          /\ Goto("generate_train")
    /\ UNCHANGED <<inputs, population, splitVars, imageVars, fs, cvVars>>

\* generate_and_save_embeddings(data, isTrain): the embeddings of data under the
\* fitted model are computed and written, or the call raises and writes nothing.
GenerateAndSave(call, next) ==
    /\ Call("generate_and_save_embeddings", call.X, call.isTrain)
    /\ \/ /\ Raise("Exception")
          /\ UNCHANGED fs
       \/ /\ fs' = [fs EXCEPT ![call.file] =
                        Written(ClinicalEmbeddings(embedding_model, Local(call.X)))]
          /\ Goto(next)

EmbedClinicalTrain ==
    /\ Running /\ pc = "generate_train"
    /\ GenerateAndSave(TrainEmbeddingCall, "generate_test")
    /\ UNCHANGED <<inputs, population, splitVars, embedding_model, imageVars, cvVars>>

EmbedClinicalTest ==
    /\ Running /\ pc = "generate_test"
    /\ GenerateAndSave(TestEmbeddingCall, AfterClinical(args))
    /\ UNCHANGED <<inputs, population, splitVars, embedding_model, imageVars, cvVars>>

\* png_dataset = PNGDataset(...) up to qadence_circuit = qcnn.define_qadence_circuit():
\* the image ids are sorted and split; any of the constructors may raise.
LoadImages ==
    /\ Running /\ pc = "PNGDataset"
    /\ Call("PNGDataset", "-", "-")
    /\ \/ /\ Raise("Exception")
          /\ UNCHANGED imageVars
       \/ \E keys \in ImageKeyOrders :
             /\ png_keys' = keys
             /\ all_patient_ids' = Sorted(keys)
             /\ train_image_ids' = ImageSplit(Sorted(keys)).train
             /\ test_image_ids' = ImageSplit(Sorted(keys)).test
             /\ Goto("process_train")
    /\ UNCHANGED <<inputs, population, splitVars, embedding_model, fs, cvVars>>

\* process_and_save_embeddings(png_dataset, circuit, ids, patch_size, filename):
\* one embedding per id is computed and the array written under filename, or
\* the call raises and writes nothing.
ProcessAndSave(call, next) ==
    /\ Call("process_and_save_embeddings", call.ids, call.filename)
    /\ \/ /\ Raise("Exception")
          /\ UNCHANGED fs
       \/ /\ fs' = [fs EXCEPT ![call.file] = Written(ImageEmbeddings(Local(call.ids)))]
          /\ Goto(next)

EmbedImagesTrain ==
    /\ Running /\ pc = "process_train"
    /\ ProcessAndSave(TrainImageCall, "process_test")
    /\ UNCHANGED <<inputs, population, splitVars, embedding_model, imageVars, cvVars>>

EmbedImagesTest ==
    /\ Running /\ pc = "process_test"
    /\ ProcessAndSave(TestImageCall, "return")
    /\ UNCHANGED <<inputs, population, splitVars, embedding_model, imageVars, cvVars>>

\* Falling off the end of generate_data when the last block was skipped.
ReturnFromGenerateData ==
    /\ Running /\ pc = "return"
    /\ Return
    /\ UNCHANGED <<inputs, population, splitVars, embedding_model, imageVars,
                   fs, trace, cvVars>>

\* ---------------------------------------------------- run_cross_validation
\* data_preprocessing = DataPreprocessing(...); ....preprocesses_data()
CvLoad ==
    /\ Running /\ pc = "run_cross_validation"
    /\ \/ /\ Raise("Exception")
          /\ UNCHANGED population
       \/ \E t \in ClinicalTables :
             /\ patient_data' = t.data
             /\ patient_labels' = t.labels
             /\ patient_ids' = t.ids
             /\ Goto("KFold")
    /\ UNCHANGED <<inputs, splitVars, embedding_model, imageVars, fs, trace, cvVars>>

\* kfold = KFold(n_splits=k, shuffle=True, random_state=42); fold_metrics = []
CvKFold ==
    /\ Running /\ pc = "KFold"
    /\ IF KFoldInitError(k) # "none"
          THEN /\ Raise(KFoldInitError(k))
               /\ UNCHANGED fold_metrics
          ELSE /\ fold_metrics' = << >>
               /\ Goto("split")
    /\ UNCHANGED <<inputs, population, splitVars, embedding_model, imageVars, fs,
                   trace, folds, fold, val_data, val_labels, fold_fs, folds_done>>

\* enumerate(kfold.split(patient_data)): the generator starts, and raises when
\* there are more folds than rows.
CvSplit ==
    /\ Running /\ pc = "split"
    /\ IF KFoldSplitError(Len(patient_data), k) # "none"
          THEN /\ Raise(KFoldSplitError(Len(patient_data), k))
               /\ UNCHANGED <<folds, fold>>
          ELSE \E kind \in Shuffles :
                 /\ folds' = KFoldSplit(Len(patient_data), k, kind)
                 /\ fold' = 0
                 /\ Goto("for")
    /\ UNCHANGED <<inputs, population, splitVars, embedding_model, imageVars, fs,
                   trace, val_data, val_labels, fold_metrics, fold_fs, folds_done>>

\* Mutant of NextFold: the loop stops one fold early.
NextFold_SkipLast(taken) == IF taken + 1 < Len(folds) THEN "body" ELSE "average"

\* The loop head after `taken` iterations: the body runs while the generator
\* has a pair left, then the averaging step.
NextFold(taken) == IF taken < Len(folds) THEN "body" ELSE "average"

\* for fold, (train_idx, val_idx) in enumerate(kfold.split(patient_data))
CvFor ==
    /\ Running /\ pc = "for"
    /\ IF NextFold(Len(folds_done)) = "body"
          THEN /\ fold' = folds[Len(folds_done) + 1].fold
               /\ folds_done' = Append(folds_done, folds[Len(folds_done) + 1])
               /\ Goto("body")
          ELSE /\ UNCHANGED <<fold, folds_done>>
               /\ Goto("average")
    /\ UNCHANGED <<inputs, population, splitVars, embedding_model, imageVars, fs,
                   trace, folds, val_data, val_labels, fold_metrics, fold_fs>>

\* The loop body up to train_model: the fold's rows are selected and a fresh
\* embedding model is fitted on the fold's train rows.
CvFoldFit ==
    /\ Running /\ pc = "body"
    /\ LET f == folds_done[Len(folds_done)]
       IN  /\ train_data' = Take(patient_data, f.train_idx)
           /\ train_labels' = Take(patient_labels, f.train_idx)
           /\ val_data' = Take(patient_data, f.val_idx)
           /\ val_labels' = Take(patient_labels, f.val_idx)
           /\ \/ /\ Raise("Exception")
                 /\ UNCHANGED embedding_model
              \/ /\ embedding_model' = FitModel(Take(patient_data, f.train_idx),
                                                Take(patient_labels, f.train_idx))
                 /\ Goto("np.save")
    /\ UNCHANGED <<inputs, population, test_data, test_labels, train_ids, test_ids,
                   imageVars, fs, trace, folds, fold, fold_metrics, fold_fs, folds_done>>

\* The np.save calls of the loop body, in program order.
FoldWrites ==
    <<[fold |-> fold, role |-> "train", rows |-> ClinicalEmbeddings(embedding_model, train_data)],
      [fold |-> fold, role |-> "val", rows |-> ClinicalEmbeddings(embedding_model, val_data)]>>

\* np.save(fold_{fold}_train_embeddings.npy), np.save(fold_{fold}_val_embeddings.npy):
\* the first n succeed, and with n < 2 the next one raises.
CvFoldSave ==
    /\ Running /\ pc = "np.save"
    /\ \E n \in 0..Len(FoldWrites) :
          /\ fold_fs' = fold_fs \o SubSeq(FoldWrites, 1, n)
          /\ IF n = Len(FoldWrites) THEN Goto("for") ELSE Raise("Exception")
    /\ UNCHANGED <<inputs, population, splitVars, embedding_model, imageVars, fs,
                   trace, folds, fold, val_data, val_labels, fold_metrics, folds_done>>

\* The exception the averaging step ends with for this collection, or "none":
\* fold_metrics[0] is evaluated first.
AverageError(metrics) == IF Len(metrics) = 0 THEN "IndexError" ELSE "none"

\* for metric in fold_metrics[0].keys(): avg_value = sum(...) / k
CvAverage ==
    /\ Running /\ pc = "average"
    /\ IF AverageError(fold_metrics) # "none"
          THEN Raise(AverageError(fold_metrics))
          ELSE Return
    /\ UNCHANGED <<inputs, population, splitVars, embedding_model, imageVars, fs,
                   trace, cvVars>>

\* ------------------------------------------------------------------- spec
Next ==
    \/ Main
    \/ DirectCrossValidation
    \/ Train
    \/ Test
    \/ GenerateData
    \/ LoadClinical
    \/ Split
    \/ SaveCsv
    \/ FitClinical
    \/ EmbedClinicalTrain
    \/ EmbedClinicalTest
    \/ LoadImages
    \/ EmbedImagesTrain
    \/ EmbedImagesTest
    \/ ReturnFromGenerateData
    \/ CvLoad
    \/ CvKFold
    \/ CvSplit
    \/ CvFor
    \/ CvFoldFit
    \/ CvFoldSave
    \/ CvAverage

Spec == Init /\ [][Next]_vars

\* ------------------------------------------------------------------ claims
Called(op) == \E i \in 1..Len(trace) : trace[i].op = op

WasWritten(f) == fs[f].status = "written"

NoDuplicates(seq) == Cardinality(Range(seq)) = Len(seq)

\* A run of generate_data that generates (use_pregen not set).
Generating == invocation = "main" /\ args.mode = "data" /\ ~args.use_pregen

\* Row i of the id/label table and row i of the feature table belong to one
\* patient of the clinical table that was loaded.
SamePatientRows(labelTable, dataTable) ==
    /\ Len(labelTable) = Len(dataTable)
    /\ \A i \in 1..Len(labelTable) :
          \E j \in 1..Len(patient_ids) :
             /\ labelTable[i].TCIA_ID = patient_ids[j]
             /\ labelTable[i].Censored_0_progressed_1 = patient_labels[j]
             /\ dataTable[i] = patient_data[j]

\* Row i of the embedding array is the embedding of row i of the feature table.
EmbeddingOfRows(embTable, dataTable) ==
    /\ Len(embTable) = Len(dataTable)
    /\ \A i \in 1..Len(embTable) : embTable[i].x = dataTable[i]

\* C1: after a successful generating run, row i of train_labels.csv holds the
\* id and label of the patient whose features are row i of train_data.csv and,
\* when the clinical embeddings were generated, whose embedding is row i of the
\* clinical train embedding array; the same for the test tables and array.
C1_RowAlignment ==
    (Generating /\ state = "done") =>
        /\ \A i \in 1..Len(CsvFiles) : WasWritten(CsvFiles[i])
        /\ SamePatientRows(fs[TrainLabelsCsv].rows, fs[TrainDataCsv].rows)
        /\ SamePatientRows(fs[TestLabelsCsv].rows, fs[TestDataCsv].rows)
        /\ NoDuplicates([i \in 1..Len(fs[TrainLabelsCsv].rows) |-> fs[TrainLabelsCsv].rows[i].TCIA_ID])
        /\ NoDuplicates([i \in 1..Len(fs[TestLabelsCsv].rows) |-> fs[TestLabelsCsv].rows[i].TCIA_ID])
        /\ RunsClinical(args) =>
              /\ WasWritten(ClinicalTrainEmb) /\ WasWritten(ClinicalTestEmb)
              /\ EmbeddingOfRows(fs[ClinicalTrainEmb].rows, fs[TrainDataCsv].rows)
              /\ EmbeddingOfRows(fs[ClinicalTestEmb].rows, fs[TestDataCsv].rows)

\* A successful run over six patients of both classes whose train rows were
\* shuffled out of id order, with the clinical embeddings written.
C1_Witness ==
    /\ Generating /\ state = "done" /\ args.data_type = "both"
    /\ Len(patient_ids) = 6 /\ Range(patient_labels) = Labels
    /\ Len(fs[ClinicalTrainEmb].rows) = 4
    /\ train_ids # Ascending(Range(train_ids))
    /\ Range(train_labels) = Labels

\* The split of generate_data has returned.
SplitReturned == Generating /\ Called("train_test_split") /\ pc # "train_test_split"

\* C2: after the train/test split, train_ids and test_ids are disjoint, their
\* lengths add up to the number of patients, and no patient is dropped or
\* repeated.
C2_SplitPartition ==
    SplitReturned =>
        /\ Range(train_ids) \cap Range(test_ids) = {}
        /\ Len(train_ids) + Len(test_ids) = Len(patient_ids)
        /\ Range(train_ids) \cup Range(test_ids) = Range(patient_ids)
        /\ NoDuplicates(train_ids) /\ NoDuplicates(test_ids)

\* Six patients of both classes split into four train and two test ids.
C2_Witness ==
    /\ SplitReturned
    /\ Len(patient_ids) = 6 /\ Range(patient_labels) = Labels
    /\ Len(train_ids) = 4 /\ Len(test_ids) = 2

\* The image ids have been sorted and split.
ImagesSplit == Generating /\ Called("PNGDataset") /\ pc # "PNGDataset"

\* C6: the image ids are sorted and split by position: train_image_ids is the
\* first floor(n/2) sorted ids, test_image_ids the remaining ones; the lists
\* are disjoint, cover all n ids, and every train id sorts before every test id.
C6_ImageHalfSplit ==
    ImagesSplit =>
        LET n == Cardinality(Range(png_keys))
        IN  /\ Len(all_patient_ids) = n
            /\ Range(all_patient_ids) = Range(png_keys)
            /\ \A i \in 1..(n - 1) : all_patient_ids[i] < all_patient_ids[i + 1]
            /\ Len(train_image_ids) = n \div 2
            /\ train_image_ids \o test_image_ids = all_patient_ids
            /\ Range(train_image_ids) \cap Range(test_image_ids) = {}
            /\ Range(train_image_ids) \cup Range(test_image_ids) = Range(png_keys)
            /\ \A a \in Range(train_image_ids) : \A b \in Range(test_image_ids) : a < b
            /\ WasWritten(ImageTrainEmb) =>
                  fs[ImageTrainEmb].rows = [i \in 1..Len(train_image_ids) |-> [patient |-> train_image_ids[i]]]
            /\ WasWritten(ImageTestEmb) =>
                  fs[ImageTestEmb].rows = [i \in 1..Len(test_image_ids) |-> [patient |-> test_image_ids[i]]]

\* Three image ids listed in descending order: one train id, two test ids,
\* both files written.
C6_Witness ==
    /\ ImagesSplit /\ state = "done"
    /\ Len(png_keys) = 3 /\ png_keys[1] > png_keys[2]
    /\ Len(train_image_ids) = 1 /\ Len(test_image_ids) = 2
    /\ WasWritten(ImageTestEmb)

\* The calls made to the clinical embedding generator.
GeneratorOps == {"train_model", "generate_and_save_embeddings"}

FitCalls == {i \in 1..Len(trace) : trace[i].op = "train_model"}

\* C3: the clinical embedding model is fitted at most once (exactly once when
\* the clinical block completes), on train features and train labels only, and
\* before any embedding is generated; test features are passed to inference
\* only, test labels to no generator call; every persisted clinical embedding
\* row was produced by the model fitted on the train subset.
C3_NoLeakage ==
    Generating =>
        /\ Cardinality(FitCalls) <= 1
        /\ \A i \in FitCalls : trace[i].x = "train_data" /\ trace[i].y = "train_labels"
        /\ \A i \in 1..Len(trace) :
              trace[i].op = "generate_and_save_embeddings" =>
                  /\ trace[i].x \in {"train_data", "test_data"}
                  /\ \E j \in FitCalls : j < i
        /\ \A i \in 1..Len(trace) :
              trace[i].op \in GeneratorOps =>
                  /\ "test_labels" \notin {trace[i].x, trace[i].y}
                  /\ trace[i].x = "test_data" => trace[i].op = "generate_and_save_embeddings"
        /\ embedding_model.fitted =>
              embedding_model = [fitted |-> TRUE, data |-> train_data, labels |-> train_labels]
        /\ \A f \in ClinicalFiles : WasWritten(f) =>
              /\ Cardinality(FitCalls) = 1
              /\ \A i \in 1..Len(fs[f].rows) :
                    fs[f].rows[i].model = [fitted |-> TRUE, data |-> train_data, labels |-> train_labels]
        /\ WasWritten(ClinicalTestEmb) =>
              fs[ClinicalTestEmb].rows =
                 [i \in 1..Len(test_data) |->
                    [model |-> [fitted |-> TRUE, data |-> train_data, labels |-> train_labels],
                     x |-> test_data[i]]]

\* Test embeddings of a two-row test subset have been written.
C3_Witness ==
    /\ Generating /\ WasWritten(ClinicalTestEmb)
    /\ Len(fs[ClinicalTestEmb].rows) = 2 /\ Len(test_labels) = 2
    /\ Range(test_labels) = Labels

\* generate_data was entered with use_pregen set.
Pregen == invocation = "main" /\ args.mode = "data" /\ args.use_pregen

\* C4: with use_pregen set, generate_data returns at once for every modality
\* selector: nothing is loaded, split, fitted or generated, no call is made,
\* and every persisted artifact keeps its content.
C4_PregenNoOp ==
    [][Pregen =>
          /\ fs' = fs
          /\ population' = population /\ splitVars' = splitVars
          /\ embedding_model' = embedding_model /\ imageVars' = imageVars
          /\ pc = "generate_data" => (pc' = "exit" /\ state' = "done" /\ trace' = trace)
          /\ state' # "failed"]_vars

\* A use_pregen run has returned and the artifacts of the earlier run are still
\* the stale ones.
C4_Witness ==
    /\ Pregen /\ state = "done" /\ pc = "exit"
    /\ args.data_type = "both"
    /\ \A f \in FileNames : fs[f].status = "stale"
    /\ ~Called("preprocesses_data")

\* The calls of a complete generating run, in order, for a modality selector.
TableCalls ==
    <<Event("generate_data", "-", "-"),
      Event("preprocesses_data", "-", "-"),
      Event("train_test_split", "-", "-"),
      Event("to_csv", "data/train_data.csv", "-"),
      Event("to_csv", "data/labels/train_labels.csv", "-"),
      Event("to_csv", "data/test_data.csv", "-"),
      Event("to_csv", "data/labels/test_labels.csv", "-")>>

ClinicalCalls ==
    <<Event("train_model", "train_data", "train_labels"),
      Event("generate_and_save_embeddings", "train_data", "isTrain=True"),
      Event("generate_and_save_embeddings", "test_data", "isTrain=False")>>

ImageCalls ==
    <<Event("PNGDataset", "-", "-"),
      Event("process_and_save_embeddings", "train_image_ids", "train_embeddings.npy"),
      Event("process_and_save_embeddings", "test_image_ids", "test_embeddings.npy")>>

ExpectedCalls(data_type) ==
    TableCalls
    \o (IF data_type \in {"clinical", "both"} THEN ClinicalCalls ELSE << >>)
    \o (IF data_type \in {"image", "both"} THEN ImageCalls ELSE << >>)

\* C9: in a generating run the calls made so far are always a prefix of: load,
\* split, the four table writes; then the clinical fit and the two clinical
\* generations iff the selector is clinical or both; then the image load and
\* the train and test image generations iff the selector is image or both.  A
\* run that is done has made all of them, and files are written in that order.
C9_StageOrder ==
    Generating =>
        /\ IsPrefix(trace, ExpectedCalls(args.data_type))
        /\ state = "done" => trace = ExpectedCalls(args.data_type)
        /\ (\E f \in ClinicalFiles \cup ImageFiles : WasWritten(f)) =>
              \A i \in 1..Len(CsvFiles) : WasWritten(CsvFiles[i])
        /\ WasWritten(ClinicalTestEmb) => WasWritten(ClinicalTrainEmb)
        /\ WasWritten(ImageTestEmb) => WasWritten(ImageTrainEmb)
        /\ (args.data_type = "both" /\ Called("PNGDataset")) =>
              (WasWritten(ClinicalTrainEmb) /\ WasWritten(ClinicalTestEmb))
        /\ args.data_type = "image" => \A f \in ClinicalFiles : ~WasWritten(f)
        /\ args.data_type = "clinical" => \A f \in ImageFiles : ~WasWritten(f)

\* A complete run with selector both: tables, clinical, then image.
C9_Witness ==
    /\ Generating /\ state = "done" /\ args.data_type = "both"
    /\ Len(trace) = 13
    /\ WasWritten(ImageTestEmb) /\ WasWritten(ClinicalTestEmb)

\* The state and the calls each mode of the entry point may show.
ModeState(mode) == CASE mode = "data" -> "generating_data"
                     [] mode = "train" -> "training"
                     [] mode = "test" -> "testing"

ModeOps(mode) == CASE mode = "data" -> {e.op : e \in Range(ExpectedCalls("both"))}
                   [] mode = "train" -> {"train", "Trainer.train"}
                   [] mode = "test" -> {"test", "Evaluator.test"}

C10_OneMode ==
    invocation = "main" =>
        /\ state \in {"idle", ModeState(args.mode), "done", "failed"}
        /\ state # "cross_validating"
        /\ \A i \in 1..Len(trace) : trace[i].op \in ModeOps(args.mode)
        /\ state = "idle" <=> trace = << >>
        /\ pc = "exit" => state = "done"
        /\ ~Running => (state = "idle" \/ ~ENABLED Next)

C10_ModeSteps ==
    invocation = "main" =>
        /\ args' = args
        /\ state' # state =>
              \/ state = "idle" /\ state' = ModeState(args.mode)
              \/ state = ModeState(args.mode) /\ state' \in {"done", "failed"}

\* C10: an invocation of the entry point enters the one mode its selector
\* names (data: generate_data, train: Trainer.train, test: Evaluator.test),
\* makes no call of another mode, leaves the mode only for done or failed,
\* where it stays, and never enters cross_validating.
C10_SingleMode == [](C10_OneMode) /\ [][C10_ModeSteps]_vars

\* Mode test has run the evaluator and nothing else, and is done.
C10_Witness ==
    /\ invocation = "main" /\ args.mode = "test" /\ state = "done"
    /\ trace = <<Event("test", "-", "-"), Event("Evaluator.test", "-", "-")>>

CrossValidating == invocation = "direct" /\ state # "idle"

AllRows == 1..Len(patient_data)

\* C8: run_cross_validation iterates the folds 0, 1, ... in order and, once
\* the loop is left for the averaging step, exactly k of them; in each fold the
\* train and validation rows are disjoint and together all N rows; the
\* validation sets are pairwise disjoint, of floor(N/k) or floor(N/k)+1 rows,
\* and after the k-th fold their union is all N rows; the files written carry
\* the fold numbers.
C8_KFoldPartition ==
    CrossValidating =>
        /\ Len(folds_done) <= k
        /\ \A i \in 1..Len(folds_done) :
              LET f == folds_done[i]
              IN  /\ f.fold = i - 1
                  /\ Range(f.train_idx) \cap Range(f.val_idx) = {}
                  /\ Range(f.train_idx) \cup Range(f.val_idx) = AllRows
                  /\ NoDuplicates(f.train_idx) /\ NoDuplicates(f.val_idx)
                  /\ Len(f.val_idx) \in {Len(patient_data) \div k, Len(patient_data) \div k + 1}
                  /\ Len(patient_data) % k = 0 => Len(f.val_idx) = Len(patient_data) \div k
        /\ \A i, j \in 1..Len(folds_done) :
              i # j => Range(folds_done[i].val_idx) \cap Range(folds_done[j].val_idx) = {}
        /\ pc = "average" =>
              /\ Len(folds_done) = k
              /\ UNION {Range(folds_done[i].val_idx) : i \in 1..k} = AllRows
              /\ {w.fold : w \in Range(fold_fs)} = 0..(k - 1)
              /\ Len(fold_fs) = 2 * k
        /\ \A i \in 1..Len(fold_fs) :
              /\ fold_fs[i].fold \in 0..(k - 1)
              /\ fold_fs[i].fold = (i - 1) \div 2
              /\ Len(fold_fs[i].rows) =
                   IF fold_fs[i].role = "train"
                      THEN Len(folds_done[fold_fs[i].fold + 1].train_idx)
                      ELSE Len(folds_done[fold_fs[i].fold + 1].val_idx)

\* Three folds over six patients have been iterated: three validation sets of
\* two patients each.
C8_Witness ==
    /\ CrossValidating /\ pc = "average"
    /\ k = 3 /\ Len(patient_data) = 6
    /\ Len(folds_done) = 3
    /\ \A i \in 1..3 : Len(folds_done[i].val_idx) = 2
    /\ folds_done[1].val_idx # <<1, 2>>

\* C5: when the averaging step is reached with an empty fold-metrics
\* collection it raises AggregationError.
C5_AggregationError ==
    (CrossValidating /\ pc = "average" /\ Len(fold_metrics) = 0 /\ ~Running) =>
        (state = "failed" /\ error = "AggregationError")

\* The blocks of generate_data whose failure is a modality's failure.
ClinicalSteps == {"train_model", "generate_train", "generate_test"}
ImageSteps == {"PNGDataset", "process_train", "process_test"}

\* C7: when a step of a modality's processing fails, the error reaches the
\* caller, the failing call is the last call made, and no file of the failed
\* modality has been written.
C7_NoPartialOutput ==
    (Generating /\ state = "failed" /\ pc \in ClinicalSteps \cup ImageSteps) =>
        /\ error # "none"
        /\ ~ENABLED Next
        /\ pc \in ClinicalSteps => \A f \in ClinicalFiles : ~WasWritten(f)
        /\ pc \in ImageSteps => \A f \in ImageFiles : ~WasWritten(f)

====
